---- MODULE Spec2Model ----
(***************************************************************************)
(* Finance_Tracker: the LINE webhook of src/main.py.  The state is the     *)
(* four worksheets the handler reads and rewrites (Transactions, Balances, *)
(* Categories, Transfers), the wall clock, and what the last webhook       *)
(* delivery produced (reply, HTTP status).  Chat texts are TLA+ strings    *)
(* and are taken apart character by character, as the Python code does.    *)
(*                                                                         *)
(* A sheet is modelled by its data rows; row 1 (the header) is rewritten   *)
(* with the same constant by every rewrite and is skipped by every read.   *)
(* Category and place words are non-numeric ASCII words and free-text      *)
(* notes are not modelled.                                                 *)
(***************************************************************************)
EXTENDS Integers, Sequences, FiniteSets, TLC

VARIABLES
    transactions,   \* Transactions sheet: rows [date, type, amount, category, place]
    balances,       \* Balances sheet: rows <<place, balance>>
    categories,     \* Categories sheet: rows <<category, total, budget>>
    transfers,      \* Transfers sheet: rows <<date, amount, from, to>>
    clock,          \* index of the current instant in Calendar
    cmd,            \* text of the last webhook delivery
    ran,            \* whether handle_message ran for the last delivery
    reply,          \* reply sent for the last delivery (NoReply if none)
    http,           \* HTTP answer of the last delivery
    n,              \* number of deliveries so far
    procs           \* in-flight handlers of the step-wise specifications

vars == <<transactions, balances, categories, transfers, clock, cmd, ran, reply, http, n, procs>>
sheets == <<transactions, balances, categories, transfers>>

----------------------------------------------------------------------------
(* Bounds *)
MaxMsgs == 3
\* whole numbers whose cell text is tabulated (larger ones are computed)
MaxTabulated == 60

\* chat texts delivered to the webhook: every command of the grammar, and
\* texts that are not well-formed commands
Messages ==
    { "e 5 food cash", "i 7 Food cash", "e 5", "e abc", "e",
      "transfer 5 cash post", "transfer x cash post", "transfer 5 bank post",
      "transfer 5 cash cash", "transfer -5 cash wallet",
      "balance", "  Balance ", "setbalance cash 20", "setbalance cash", "setbalance cash x",
      "report", "reportx", "setbudget food 50", "setbudget food x", "setbudgets food 5",
      "budget", "delete last", "delete", "reset daily", "reset weekly", "reset monthly",
      "reset yearly", "refresh", "help", "search food", "hello", "" }

\* bodies delivered with a signature that does not verify
ForgedMessages == {"e 5 food cash", "refresh", "hello"}

----------------------------------------------------------------------------
(* Python str methods *)

UpperLetters == "ABCDEFGHIJKLMNOPQRSTUVWXYZ"
LowerLetters == "abcdefghijklmnopqrstuvwxyz"
Digits == "0123456789"

RECURSIVE IndexFrom(_, _, _)
IndexFrom(c, s, i) ==
    IF s = "" THEN 0
    ELSE IF Head(s) = c THEN i
    ELSE IndexFrom(c, Tail(s), i + 1)

\* 1-based position of character c in string s, 0 when absent
IndexIn(c, s) == IndexFrom(c, s, 1)

CharAt(s, i) == SubSeq(s, i, i)

LowerChar(c) ==
    LET i == IndexIn(c, UpperLetters) IN IF i = 0 THEN c ELSE CharAt(LowerLetters, i)

UpperChar(c) ==
    LET i == IndexIn(c, LowerLetters) IN IF i = 0 THEN c ELSE CharAt(UpperLetters, i)

RECURSIVE LowerChars(_)
\* str.lower(), character by character
LowerChars(s) == IF s = "" THEN "" ELSE LowerChar(Head(s)) \o LowerChars(Tail(s))

\* str.capitalize(): first character upper-cased, the rest lower-cased
CapitalizeChars(s) == IF s = "" THEN "" ELSE UpperChar(Head(s)) \o LowerChars(Tail(s))

StartsWith(s, p) == Len(s) >= Len(p) /\ SubSeq(s, 1, Len(p)) = p

IsSpace(c) == c = " "

RECURSIVE LStrip(_)
LStrip(s) == IF s # "" /\ IsSpace(Head(s)) THEN LStrip(Tail(s)) ELSE s

RECURSIVE RStrip(_)
RStrip(s) ==
    IF s # "" /\ IsSpace(CharAt(s, Len(s))) THEN RStrip(SubSeq(s, 1, Len(s) - 1)) ELSE s

StripChars(s) == RStrip(LStrip(s))

RECURSIVE SplitFrom(_, _, _)
\* str.split(): the maximal runs of non-whitespace characters, in order
SplitFrom(s, cur, acc) ==
    IF s = "" THEN (IF cur = "" THEN acc ELSE Append(acc, cur))
    ELSE IF IsSpace(Head(s))
         THEN SplitFrom(Tail(s), "", IF cur = "" THEN acc ELSE Append(acc, cur))
         ELSE SplitFrom(Tail(s), cur \o Head(s), acc)

SplitChars(s) == SplitFrom(s, "", <<>>)

RECURSIVE DigitsValue(_, _)
DigitsValue(s, acc) ==
    IF s = "" THEN acc ELSE DigitsValue(Tail(s), 10 * acc + (IndexIn(Head(s), Digits) - 1))

RECURSIVE AllDigits(_)
AllDigits(s) == s = "" \/ (IndexIn(Head(s), Digits) > 0 /\ AllDigits(Tail(s)))

\* int(s): an optional sign and at least one decimal digit, else ValueError
ParseIntChars(s) ==
    LET body == IF s # "" /\ Head(s) \in {"+", "-"} THEN Tail(s) ELSE s
        neg == s # "" /\ Head(s) = "-"
    IN IF body = "" \/ ~AllDigits(body)
       THEN [ok |-> FALSE, val |-> 0]
       ELSE [ok |-> TRUE, val |-> IF neg THEN 0 - DigitsValue(body, 0) ELSE DigitsValue(body, 0)]

RECURSIVE NatToStr(_)
NatToStr(k) ==
    IF k < 10 THEN CharAt(Digits, k + 1)
    ELSE NatToStr(k \div 10) \o CharAt(Digits, (k % 10) + 1)

\* how a whole number in a cell comes back from get_all_values()
IntToStrChars(k) == IF k < 0 THEN "-" \o NatToStr(0 - k) ELSE NatToStr(k)

----------------------------------------------------------------------------
(* The str methods above, tabulated once for the strings the deliveries    *)
(* and the sheets hold; any other string is computed character by          *)
(* character.                                                              *)

SeqRange(q) == {q[i] : i \in 1..Len(q)}

MessageTexts == {StripChars(m) : m \in Messages}
MessageWords ==
    UNION {SeqRange(SplitChars(t)) : t \in MessageTexts}
        \cup {"Other", "Unknown", "Income", "Expense", "Cash", "Post", "Cathay", "rent"}
KnownStrings ==
    LET base == MessageTexts \cup MessageWords
    IN base \cup {LowerChars(w) : w \in base} \cup {CapitalizeChars(w) : w \in base}

LowerTable == [w \in KnownStrings |-> LowerChars(w)]
CapitalizeTable == [w \in KnownStrings |-> CapitalizeChars(w)]
StripTable == [m \in Messages |-> StripChars(m)]
SplitTable == [t \in MessageTexts |-> SplitChars(t)]
IntToStrTable == [k \in (0 - MaxTabulated)..MaxTabulated |-> IntToStrChars(k)]
NumberStrings == {IntToStrTable[k] : k \in DOMAIN IntToStrTable}
ParseIntTable == [w \in KnownStrings \cup NumberStrings |-> ParseIntChars(w)]

Lower(s) == IF s \in DOMAIN LowerTable THEN LowerTable[s] ELSE LowerChars(s)
Capitalize(s) == IF s \in DOMAIN CapitalizeTable THEN CapitalizeTable[s] ELSE CapitalizeChars(s)
Strip(s) == IF s \in DOMAIN StripTable THEN StripTable[s] ELSE StripChars(s)
Split(s) == IF s \in DOMAIN SplitTable THEN SplitTable[s] ELSE SplitChars(s)
ParseInt(s) == IF s \in DOMAIN ParseIntTable THEN ParseIntTable[s] ELSE ParseIntChars(s)
IntToStr(k) == IF k \in DOMAIN IntToStrTable THEN IntToStrTable[k] ELSE IntToStrChars(k)

----------------------------------------------------------------------------
(* Python dict: insertion-ordered pairs <<key, value>> with unique keys *)

RECURSIVE DictHas(_, _)
DictHas(d, k) == d # <<>> /\ (Head(d)[1] = k \/ DictHas(Tail(d), k))

RECURSIVE DictGet(_, _, _)
DictGet(d, k, default) ==
    IF d = <<>> THEN default
    ELSE IF Head(d)[1] = k THEN Head(d)[2] ELSE DictGet(Tail(d), k, default)

RECURSIVE DictPut(_, _, _)
\* d[k] = v: overwrite in place, or insert at the end
DictPut(d, k, v) ==
    IF d = <<>> THEN << <<k, v>> >>
    ELSE IF Head(d)[1] = k THEN << <<k, v>> >> \o Tail(d)
    ELSE <<Head(d)>> \o DictPut(Tail(d), k, v)

DictKeys(d) == {d[i][1] : i \in 1..Len(d)}

----------------------------------------------------------------------------
(* datetime: an instant is [ord, tod, aware]; ord counts days from Sunday  *)
(* 2023-12-31 (ord 0), tod is the time of day (0 = 00:00:00).              *)

Calendar ==
    << [ord |-> 0, tod |-> 2], [ord |-> 2, tod |-> 1] >>

\* datetime.weekday(): Monday is 0
Weekday(ord) == (ord + 6) % 7
\* day of the month: ord 0 is December 31st, ord 1..31 are January
DayOfMonth(ord) == IF ord = 0 THEN 31 ELSE ord

\* datetime.now(TIMEZONE): timezone-aware
NowAt(c) == [ord |-> Calendar[c].ord, tod |-> Calendar[c].tod, aware |-> TRUE]
\* strftime("%Y-%m-%d %H:%M:%S"): the text carries no UTC offset
Strftime(dt) == [ord |-> dt.ord, tod |-> dt.tod]
\* datetime.strptime(s, "%Y-%m-%d %H:%M:%S"): a naive datetime
Strptime(s) == [ord |-> s.ord, tod |-> s.tod, aware |-> FALSE]

\* a >= b on datetimes: TypeError between a naive and an aware datetime
DatetimeGe(a, b) ==
    IF a.aware # b.aware THEN "TypeError"
    ELSE IF a.ord > b.ord \/ (a.ord = b.ord /\ a.tod >= b.tod) THEN "True" ELSE "False"

ResetCutoff(period, today) ==
    CASE period = "daily"   -> [today EXCEPT !.tod = 0]
      [] period = "weekly"  -> [today EXCEPT !.ord = today.ord - Weekday(today.ord)]
      [] period = "monthly" -> [today EXCEPT !.ord = today.ord - (DayOfMonth(today.ord) - 1)]

----------------------------------------------------------------------------
(* gspread worksheets *)

\* worksheet.clear()
SheetClear == <<>>
\* worksheet.update("A2", rows): overwrites the range the rows cover
SheetUpdateRows(sheet, rows) == rows \o SubSeq(sheet, Len(rows) + 1, Len(sheet))
\* worksheet.delete_rows(i), i counted from the header row 1
SheetDeleteRow(sheet, i) ==
    IF i >= 2 /\ i - 1 <= Len(sheet)
    THEN SubSeq(sheet, 1, i - 2) \o SubSeq(sheet, i, Len(sheet))
    ELSE sheet

\* balances_sheet.get_all_values()[1:]: every cell as text
BalancesValues(bal) == [i \in 1..Len(bal) |-> <<bal[i][1], IntToStr(bal[i][2])>>]

RECURSIVE BalancesDictFrom(_, _)
BalancesDictFrom(values, acc) ==
    IF values = <<>> THEN acc
    ELSE BalancesDictFrom(Tail(values),
            DictPut(acc, Capitalize(Head(values)[1]), ParseInt(Head(values)[2]).val))

\* {row[0].capitalize(): int(row[1]) for row in balances_records}
BalancesDict(values) == BalancesDictFrom(values, <<>>)

RECURSIVE CategoriesDictFrom(_, _)
CategoriesDictFrom(rows, acc) ==
    IF rows = <<>> THEN acc
    ELSE CategoriesDictFrom(Tail(rows),
            DictPut(acc, Lower(Head(rows)[1]),
                    [total |-> Head(rows)[2], budget |-> Head(rows)[3]]))

GetCategories(cat) == CategoriesDictFrom(cat, <<>>)

\* [[cat.capitalize(), data["total"], data["budget"]] for cat, data in cat_data.items()]
CategoryRows(cat_data) ==
    [i \in 1..Len(cat_data) |->
        <<Capitalize(cat_data[i][1]), cat_data[i][2].total, cat_data[i][2].budget>>]

IsIncome(type_) == StartsWith(Lower(type_), "i")
IsExpense(type_) == StartsWith(Lower(type_), "e")

RECURSIVE LedgerBalances(_, _)
LedgerBalances(records, acc) ==
    IF records = <<>> THEN acc
    ELSE LET row == Head(records)
             place == Capitalize(row.place)
             cur == DictGet(acc, place, 0)
             new == IF IsIncome(row.type) THEN cur + row.amount
                    ELSE IF IsExpense(row.type) THEN cur - row.amount
                    ELSE cur
         IN LedgerBalances(Tail(records), DictPut(acc, place, new))

RECURSIVE AddMissingPlaces(_, _)
AddMissingPlaces(values, acc) ==
    IF values = <<>> THEN acc
    ELSE LET place == Capitalize(Head(values)[1])
         IN AddMissingPlaces(Tail(values),
                IF DictHas(acc, place) THEN acc
                ELSE DictPut(acc, place, ParseInt(Head(values)[2]).val))

GetBalance(tx, bal) == AddMissingPlaces(BalancesValues(bal), LedgerBalances(tx, <<>>))

\* the rows update_balances writes, computed from the values it read
UpdateBalancesRowsAlwaysAdds(values, place, amount, type_) ==
    LET d0 == BalancesDict(values)
        p == Capitalize(place)
        d1 == IF DictHas(d0, p) THEN d0 ELSE DictPut(d0, p, 0)
        cur == DictGet(d1, p, 0)
    IN DictPut(d1, p, cur + amount)

UpdateBalancesRows(values, place, amount, type_) ==
    LET d0 == BalancesDict(values)
        p == Capitalize(place)
        d1 == IF DictHas(d0, p) THEN d0 ELSE DictPut(d0, p, 0)
        cur == DictGet(d1, p, 0)
    IN IF IsIncome(type_) THEN DictPut(d1, p, cur + amount)
       ELSE DictPut(d1, p, cur - amount)

UpdateBalances(bal, place, amount, type_) ==
    SheetUpdateRows(SheetClear, UpdateBalancesRows(BalancesValues(bal), place, amount, type_))

\* the rows set_budget writes
SetBudgetRows(cat, category, amount) ==
    LET cat_data == GetCategories(cat)
        cat_key == Lower(Strip(category))
    IN CategoryRows(
         IF DictHas(cat_data, cat_key)
         THEN DictPut(cat_data, cat_key,
                      [total |-> DictGet(cat_data, cat_key, 0).total, budget |-> amount])
         ELSE DictPut(cat_data, cat_key, [total |-> 0, budget |-> amount]))

SetBudget(cat, category, amount) ==
    SheetUpdateRows(SheetClear, SetBudgetRows(cat, category, amount))

----------------------------------------------------------------------------
(* handle_message, one operator per branch.  A branch maps the sheets      *)
(* s = [tx, bal, cat, trf] to the sheets after it, the reply it sends and  *)
(* whether it ended in an uncaught exception.                              *)

NoReply == [kind |-> "none", data |-> <<>>]
Reply(kind, data) == [kind |-> kind, data |-> data]

Done(s, rep) ==
    [tx |-> s.tx, bal |-> s.bal, cat |-> s.cat, trf |-> s.trf, reply |-> rep, raised |-> FALSE]
Raise(s) ==
    [tx |-> s.tx, bal |-> s.bal, cat |-> s.cat, trf |-> s.trf, reply |-> NoReply, raised |-> TRUE]

\* the transaction row append_row writes
RecordRow(parts, amount, today) ==
    [date |-> Strftime(today),
     type |-> IF Lower(parts[1]) \in {"i", "income"} THEN "Income" ELSE "Expense",
     amount |-> amount,
     category |-> IF Len(parts) > 2 THEN parts[3] ELSE "Other",
     place |-> IF Len(parts) > 3 THEN parts[4] ELSE "Unknown"]

\* the Categories rows a record command writes
RecordCategoryRows(cat, category, amount, type_) ==
    LET cat_data == GetCategories(cat)
        cat_key == Lower(category)
        old == DictGet(cat_data, cat_key, [total |-> 0, budget |-> 0])
    IN CategoryRows(
         IF DictHas(cat_data, cat_key)
         THEN IF type_ = "Income"
              THEN DictPut(cat_data, cat_key, [old EXCEPT !.total = old.total + amount])
              ELSE DictPut(cat_data, cat_key, [old EXCEPT !.total = old.total - amount])
         ELSE DictPut(cat_data, cat_key, [total |-> amount, budget |-> 0]))

\* HandleRecord with an amount that falls back to 0 when int() fails
HandleRecordZeroAmount(parts, s, today) ==
    LET amt == IF Len(parts) >= 2 /\ ParseInt(parts[2]).ok THEN ParseInt(parts[2]).val ELSE 0
        row == RecordRow(parts, amt, today)
    IN [Done(s, Reply("saved", <<>>)) EXCEPT
          !.tx = Append(s.tx, row),
          !.bal = UpdateBalances(s.bal, row.place, row.amount, row.type),
          !.cat = SheetUpdateRows(SheetClear,
                     RecordCategoryRows(s.cat, row.category, row.amount, row.type))]

\* HandleRecord with the row inserted below the header instead of appended
HandleRecordInsertsOnTop(parts, s, today) ==
    LET amt == IF Len(parts) >= 2 THEN ParseInt(parts[2]) ELSE [ok |-> FALSE, val |-> 0]
    IN IF ~amt.ok THEN Done(s, Reply("format", <<>>))
       ELSE LET row == RecordRow(parts, amt.val, today)
            IN [Done(s, Reply("saved", <<>>)) EXCEPT
                  !.tx = <<row>> \o s.tx,
                  !.bal = UpdateBalances(s.bal, row.place, row.amount, row.type),
                  !.cat = SheetUpdateRows(SheetClear,
                             RecordCategoryRows(s.cat, row.category, row.amount, row.type))]

HandleRecord(parts, s, today) ==
    LET amt == IF Len(parts) >= 2 THEN ParseInt(parts[2]) ELSE [ok |-> FALSE, val |-> 0]
    IN IF ~amt.ok THEN Done(s, Reply("format", <<>>))
       ELSE LET row == RecordRow(parts, amt.val, today)
            IN [Done(s, Reply("saved", <<>>)) EXCEPT
                  !.tx = Append(s.tx, row),
                  !.bal = UpdateBalances(s.bal, row.place, row.amount, row.type),
                  !.cat = SheetUpdateRows(SheetClear,
                             RecordCategoryRows(s.cat, row.category, row.amount, row.type))]

\* the Balances rows an accepted transfer writes
\* a transfer that debits the from-place and credits nothing
TransferRowsDropsCredit(d, from_place, to_place, amount) ==
    DictPut(d, from_place, DictGet(d, from_place, 0) - amount)

TransferRows(d, from_place, to_place, amount) ==
    LET d1 == DictPut(d, from_place, DictGet(d, from_place, 0) - amount)
    IN DictPut(d1, to_place, DictGet(d1, to_place, 0) + amount)

HandleTransfer(parts, s, today) ==
    LET amt == ParseInt(parts[2])
        from_place == Capitalize(parts[3])
        to_place == Capitalize(parts[4])
        d == BalancesDict(BalancesValues(s.bal))
    IN IF ~amt.ok THEN Done(s, Reply("invalid_amount", <<>>))
       ELSE IF ~DictHas(d, from_place) THEN Done(s, Reply("no_such_place", <<>>))
       ELSE IF DictGet(d, from_place, 0) < amt.val THEN Done(s, Reply("not_enough_funds", <<>>))
       ELSE [Done(s, Reply("transferred", <<>>)) EXCEPT
               !.bal = SheetUpdateRows(SheetClear, TransferRows(d, from_place, to_place, amt.val)),
               !.trf = Append(s.trf, <<Strftime(today), amt.val, from_place, to_place>>)]

HandleBalance(s) == Done(s, Reply("balance", GetBalance(s.tx, s.bal)))

HandleSetBalance(parts, s) ==
    LET place == Capitalize(parts[2])
        amt == ParseInt(parts[3])
    IN IF ~amt.ok THEN Done(s, Reply("invalid_amount", <<>>))
       ELSE [Done(s, Reply("balance_set", <<>>)) EXCEPT
               !.bal = SheetUpdateRows(SheetClear,
                          DictPut(BalancesDict(BalancesValues(s.bal)), place, amt.val))]

\* get_monthly_report only reads the sheets
HandleReport(s) == Done(s, Reply("report", <<>>))

HandleSetBudget(parts, s) ==
    LET amt == ParseInt(parts[3])
    IN IF ~amt.ok THEN Done(s, Reply("invalid_amount", <<>>))
       ELSE [Done(s, Reply("budget_set", <<>>)) EXCEPT !.cat = SetBudget(s.cat, parts[2], amt.val)]

\* get_budget_status only reads the Categories sheet
HandleBudget(s) == Done(s, Reply("budget", <<>>))

\* the Categories rows 'delete last' writes when the category is listed
DeleteCategoryRows(cat_data, cat_key, amount, type_) ==
    LET old == DictGet(cat_data, cat_key, [total |-> 0, budget |-> 0])
    IN CategoryRows(
         IF IsIncome(type_)
         THEN DictPut(cat_data, cat_key, [old EXCEPT !.total = old.total - amount])
         ELSE DictPut(cat_data, cat_key, [old EXCEPT !.total = old.total + amount]))

\* the balance rollback of 'delete last'
DeleteRollbackBalances(bal, type_, place, amount) ==
    IF IsIncome(type_) THEN UpdateBalances(bal, place, 0 - amount, "Income")
    ELSE IF IsExpense(type_) THEN UpdateBalances(bal, place, amount, "Expense")
    ELSE bal

HandleDeleteLast(s) ==
    IF Len(s.tx) = 0 THEN Done(s, Reply("nothing_to_delete", <<>>))
    ELSE LET last_row == s.tx[Len(s.tx)]
             type_ == last_row.type
             amount == ParseInt(IntToStr(last_row.amount)).val
             cat_data == GetCategories(s.cat)
             cat_key == Lower(last_row.category)
         IN [Done(s, Reply("deleted", <<>>)) EXCEPT
               !.tx = SheetDeleteRow(s.tx, Len(s.tx) + 1),
               !.bal = DeleteRollbackBalances(s.bal, type_, last_row.place, amount),
               !.cat = IF DictHas(cat_data, cat_key)
                       THEN SheetUpdateRows(SheetClear,
                               DeleteCategoryRows(cat_data, cat_key, amount, type_))
                       ELSE s.cat]

\* the comparisons of the loop that collects rows_to_delete
ResetComparisons(tx, cutoff) ==
    [i \in 1..Len(tx) |-> DatetimeGe(Strptime(tx[i].date), cutoff)]

RECURSIVE DeleteRowsReversed(_, _, _)
\* for i in reversed(rows_to_delete): delete_rows(i); data row k is sheet row k + 1
DeleteRowsReversed(tx, cmp, k) ==
    IF k = 0 THEN tx
    ELSE DeleteRowsReversed(IF cmp[k] = "True" THEN SheetDeleteRow(tx, k + 1) ELSE tx, cmp, k - 1)

HandleReset(parts, s, today) ==
    LET period == Lower(parts[2])
    IN IF period \notin {"daily", "weekly", "monthly"}
       THEN Done(s, Reply("unknown_period", <<>>))
       ELSE LET cmp == ResetComparisons(s.tx, ResetCutoff(period, today))
                count == Cardinality({i \in 1..Len(s.tx) : cmp[i] = "True"})
            IN IF \E i \in 1..Len(s.tx) : cmp[i] = "TypeError" THEN Raise(s)
               ELSE IF count = 0 THEN Done(s, Reply("nothing_to_reset", <<>>))
               ELSE [Done(s, Reply("reset", <<count>>)) EXCEPT
                       !.tx = DeleteRowsReversed(s.tx, cmp, Len(s.tx))]

RECURSIVE RefreshBalances(_, _)
\* the balances loop of 'refresh', started from the stored balances
RefreshBalances(records, acc) ==
    IF records = <<>> THEN acc
    ELSE LET row == Head(records)
             place == Capitalize(row.place)
             type_ == Lower(row.type)
             cur == DictGet(acc, place, 0)
             new == IF StartsWith(type_, "i") THEN cur + row.amount
                    ELSE IF StartsWith(type_, "e") THEN cur - row.amount
                    ELSE cur
         IN RefreshBalances(Tail(records), DictPut(acc, place, new))

RECURSIVE RefreshTotals(_, _)
\* the categories loop of 'refresh': category -> total, from zero
RefreshTotals(records, acc) ==
    IF records = <<>> THEN acc
    ELSE LET row == Head(records)
             category == Lower(row.category)
             type_ == Lower(row.type)
             cur == DictGet(acc, category, 0)
             new == IF StartsWith(type_, "i") THEN cur + row.amount
                    ELSE IF StartsWith(type_, "e") THEN cur - row.amount
                    ELSE cur
         IN RefreshTotals(Tail(records), DictPut(acc, category, new))

RECURSIVE RefreshMergeResetsBudgets(_, _)
\* RefreshMerge with every recomputed category written with budget 0
RefreshMergeResetsBudgets(totals, cat_data) ==
    IF totals = <<>> THEN cat_data
    ELSE RefreshMergeResetsBudgets(Tail(totals),
            DictPut(cat_data, Head(totals)[1], [total |-> Head(totals)[2], budget |-> 0]))

RECURSIVE RefreshMerge(_, _)
\* totals replaced, budgets kept, unknown categories added with budget 0
RefreshMerge(totals, cat_data) ==
    IF totals = <<>> THEN cat_data
    ELSE LET cat == Head(totals)[1]
             total == Head(totals)[2]
         IN RefreshMerge(Tail(totals),
              IF DictHas(cat_data, cat)
              THEN DictPut(cat_data, cat,
                           [total |-> total, budget |-> DictGet(cat_data, cat, 0).budget])
              ELSE DictPut(cat_data, cat, [total |-> total, budget |-> 0]))

RefreshBalanceRows(values, records) == RefreshBalances(records, BalancesDict(values))
RefreshCategoryRows(cat, records) ==
    CategoryRows(RefreshMerge(RefreshTotals(records, <<>>), GetCategories(cat)))

HandleRefresh(s) ==
    [Done(s, Reply("refreshed", <<>>)) EXCEPT
       !.bal = SheetUpdateRows(SheetClear, RefreshBalanceRows(BalancesValues(s.bal), s.tx)),
       !.cat = SheetUpdateRows(SheetClear, RefreshCategoryRows(s.cat, s.tx))]

HandleHelp(s) == Done(s, Reply("help", <<>>))

\* the search loop only reads the Transactions sheet
HandleSearch(s) == Done(s, Reply("search", <<>>))

\* handle_message: the if/elif chain on the stripped text and its words
HandleMessage(message, s, today) ==
    LET text == Strip(message)
        parts == Split(text)
        first == IF parts = <<>> THEN "" ELSE Lower(parts[1])
    IN IF parts = <<>> THEN Done(s, NoReply)
       ELSE IF first \in {"i", "income", "e", "expense"} THEN HandleRecord(parts, s, today)
       ELSE IF first = "transfer" /\ Len(parts) >= 4 THEN HandleTransfer(parts, s, today)
       ELSE IF Lower(text) = "balance" THEN HandleBalance(s)
       ELSE IF first = "setbalance" /\ Len(parts) = 3 THEN HandleSetBalance(parts, s)
       ELSE IF StartsWith(Lower(text), "report") THEN HandleReport(s)
       ELSE IF StartsWith(Lower(text), "setbudget") /\ Len(parts) = 3 THEN HandleSetBudget(parts, s)
       ELSE IF Lower(text) = "budget" THEN HandleBudget(s)
       ELSE IF Lower(text) = "delete last" THEN HandleDeleteLast(s)
       ELSE IF first = "reset" /\ Len(parts) > 1 THEN HandleReset(parts, s, today)
       ELSE IF Lower(text) = "refresh" THEN HandleRefresh(s)
       ELSE IF first = "help" THEN HandleHelp(s)
       ELSE IF first = "search" /\ Len(parts) >= 2 THEN HandleSearch(s)
       ELSE HandleHelp(s)

----------------------------------------------------------------------------
(* The webhook, one delivery at a time *)

Sheets == [tx |-> transactions, bal |-> balances, cat |-> categories, trf |-> transfers]

\* a row recorded before this process started
EarlierRow ==
    [date |-> Strftime(NowAt(1)), type |-> "Expense", amount |-> 3,
     category |-> "rent", place |-> "Cathay"]

\* the spreadsheet after the startup code of main.py: the Balances and
\* Categories sheets as it creates them when they are missing, beside a
\* Transactions sheet that is empty or already holds a row
InitSheets ==
    /\ transactions \in {<<>>, <<EarlierRow>>}
    /\ balances = << <<"Cash", 0>>, <<"Post", 0>>, <<"Cathay", 0>> >>
    /\ categories = <<>>
    /\ transfers = <<>>

InitDelivery ==
    /\ clock = 1
    /\ cmd = ""
    /\ ran = FALSE
    /\ reply = NoReply
    /\ http = "none"
    /\ n = 0

Init == InitSheets /\ InitDelivery /\ procs = <<>>

\* time passes between deliveries
Tick ==
    /\ clock < Len(Calendar)
    /\ clock' = clock + 1
    /\ UNCHANGED <<sheets, cmd, ran, reply, http, n, procs>>

\* callback() when handler.handle raises InvalidSignatureError: abort(400)
CallbackInvalidSignature ==
    /\ n < MaxMsgs
    /\ \E message \in ForgedMessages :
         /\ cmd' = message
         /\ ran' = FALSE
         /\ reply' = NoReply
         /\ http' = "400"
         /\ n' = n + 1
         /\ UNCHANGED <<sheets, clock, procs>>

\* callback() with a valid signature: handle_message runs to its end
Deliver(message) ==
    \E r \in {HandleMessage(message, Sheets, NowAt(clock))} :
       /\ transactions' = r.tx
       /\ balances' = r.bal
       /\ categories' = r.cat
       /\ transfers' = r.trf
       /\ cmd' = message
       /\ ran' = TRUE
       /\ reply' = r.reply
       /\ http' = IF r.raised THEN "500" ELSE "OK"
       /\ n' = n + 1
       /\ UNCHANGED <<clock, procs>>

CallbackValidSignature ==
    /\ n < MaxMsgs
    /\ \E message \in Messages : Deliver(message)

Next == Tick \/ CallbackInvalidSignature \/ CallbackValidSignature

Spec == Init /\ [][Next]_vars

----------------------------------------------------------------------------
(* The record branch of handle_message, one sheet request at a time.  Each *)
(* gspread call is one HTTP request to the spreadsheet, so deliveries      *)
(* handled by different threads or workers interleave between the calls,   *)
(* and a call that raises (or a worker that is killed) ends the handler    *)
(* between two of them.                                                    *)

Handlers == {1, 2}

\* texts the record branch accepts
RecordMessages == {"e 5 food cash", "i 7 Food cash", "e 5"}

AfterHandling(r) == [tx |-> r.tx, bal |-> r.bal, cat |-> r.cat, trf |-> r.trf]

\* a handler's locals: its position, the row it appends, the rows it is about
\* to write, its reply; at records the position it stopped at, pre and
\* expected the sheets when it started and the sheets handle_message leaves
\* when it runs to its end from there
IdleHandler ==
    [pc |-> "idle", at |-> "", msg |-> "", row |-> <<>>, rows |-> <<>>, reply |-> NoReply,
     pre |-> <<>>, expected |-> <<>>]

InFlight(p) == procs[p].pc \notin {"idle", "done", "crashed"}
NoneInFlight == \A p \in DOMAIN procs : ~InFlight(p)

At(p, pc) == p \in DOMAIN procs /\ procs[p].pc = pc
Goto(p, pc) == procs' = [procs EXCEPT ![p].pc = pc]

\* lines 255-273: the text is parsed and the row is built
StartRecord(p) ==
    /\ At(p, "idle")
    /\ n < MaxMsgs
    /\ \E message \in RecordMessages :
         procs' = [procs EXCEPT ![p] =
                     [pc |-> "append_row", at |-> "", msg |-> message,
                      row |-> RecordRow(Split(Strip(message)),
                                        ParseInt(Split(Strip(message))[2]).val, NowAt(clock)),
                      rows |-> <<>>, reply |-> NoReply,
                      pre |-> Sheets,
                      expected |-> AfterHandling(HandleMessage(message, Sheets, NowAt(clock)))]]
    /\ n' = n + 1
    /\ UNCHANGED <<sheets, clock, cmd, ran, reply, http>>

\* line 274: transactions_sheet.append_row
RecAppendRow(p) ==
    /\ At(p, "append_row")
    /\ transactions' = Append(transactions, procs[p].row)
    /\ Goto(p, "read_balances")
    /\ UNCHANGED <<balances, categories, transfers, clock, cmd, ran, reply, http, n>>

\* lines 146-154, 159: update_balances reads the sheet and computes its rows
RecReadBalances(p) ==
    /\ At(p, "read_balances")
    /\ procs' = [procs EXCEPT
                   ![p].pc = "clear_balances",
                   ![p].rows = UpdateBalancesRows(BalancesValues(balances), procs[p].row.place,
                                                  procs[p].row.amount, procs[p].row.type)]
    /\ UNCHANGED <<sheets, clock, cmd, ran, reply, http, n>>

\* line 157: balances_sheet.clear()
RecClearBalances(p) ==
    /\ At(p, "clear_balances")
    /\ balances' = SheetClear
    /\ Goto(p, "header_balances")
    /\ UNCHANGED <<transactions, categories, transfers, clock, cmd, ran, reply, http, n>>

\* line 158: the header row is written
RecHeaderBalances(p) ==
    /\ At(p, "header_balances")
    /\ Goto(p, "write_balances")
    /\ UNCHANGED <<sheets, clock, cmd, ran, reply, http, n>>

\* line 160: balances_sheet.update("A2", rows)
RecWriteBalances(p) ==
    /\ At(p, "write_balances")
    /\ balances' = SheetUpdateRows(balances, procs[p].rows)
    /\ Goto(p, "read_categories")
    /\ UNCHANGED <<transactions, categories, transfers, clock, cmd, ran, reply, http, n>>

\* lines 278-288, 294: get_categories and the rows to write
RecReadCategories(p) ==
    /\ At(p, "read_categories")
    /\ procs' = [procs EXCEPT
                   ![p].pc = "clear_categories",
                   ![p].rows = RecordCategoryRows(categories, procs[p].row.category,
                                                  procs[p].row.amount, procs[p].row.type)]
    /\ UNCHANGED <<sheets, clock, cmd, ran, reply, http, n>>

\* line 292: cat_sheet.clear()
RecClearCategories(p) ==
    /\ At(p, "clear_categories")
    /\ categories' = SheetClear
    /\ Goto(p, "header_categories")
    /\ UNCHANGED <<transactions, balances, transfers, clock, cmd, ran, reply, http, n>>

\* line 293: the header row is written
RecHeaderCategories(p) ==
    /\ At(p, "header_categories")
    /\ Goto(p, "write_categories")
    /\ UNCHANGED <<sheets, clock, cmd, ran, reply, http, n>>

\* line 295: cat_sheet.update("A2", rows)
RecWriteCategories(p) ==
    /\ At(p, "write_categories")
    /\ categories' = SheetUpdateRows(categories, procs[p].rows)
    /\ Goto(p, "reply")
    /\ UNCHANGED <<transactions, balances, transfers, clock, cmd, ran, reply, http, n>>

\* lines 297-298: the reply is sent
RecReply(p) ==
    /\ At(p, "reply")
    /\ procs' = [procs EXCEPT ![p].pc = "done", ![p].reply = Reply("saved", <<>>)]
    /\ UNCHANGED <<sheets, clock, cmd, ran, reply, http, n>>

\* a handler that puts the Transactions sheet back when it ends early
StopHandlerRollsBack(p) ==
    /\ p \in DOMAIN procs
    /\ InFlight(p)
    /\ procs' = [procs EXCEPT ![p].pc = "crashed", ![p].at = procs[p].pc]
    /\ transactions' = procs[p].pre.tx
    /\ UNCHANGED <<balances, categories, transfers, clock, cmd, ran, reply, http, n>>

\* the handler ends before its next request: nothing is caught or undone
StopHandler(p) ==
    /\ p \in DOMAIN procs
    /\ InFlight(p)
    /\ procs' = [procs EXCEPT ![p].pc = "crashed", ![p].at = procs[p].pc]
    /\ UNCHANGED <<sheets, clock, cmd, ran, reply, http, n>>

RecordStep(p) ==
    \/ RecAppendRow(p) \/ RecReadBalances(p) \/ RecClearBalances(p) \/ RecHeaderBalances(p)
    \/ RecWriteBalances(p) \/ RecReadCategories(p) \/ RecClearCategories(p)
    \/ RecHeaderCategories(p) \/ RecWriteCategories(p) \/ RecReply(p)

\* a Balances sheet that 'setbalance cash 20' has written to
BalancesAfterSetBalance ==
    HandleMessage("setbalance cash 20",
                  [tx |-> <<>>, bal |-> << <<"Cash", 0>>, <<"Post", 0>>, <<"Cathay", 0>> >>,
                   cat |-> <<>>, trf |-> <<>>], NowAt(1)).bal

\* two deliveries handled concurrently
InitRace ==
    /\ transactions = <<>>
    /\ balances \in {<< <<"Cash", 0>>, <<"Post", 0>>, <<"Cathay", 0>> >>, BalancesAfterSetBalance}
    /\ categories = <<>>
    /\ transfers = <<>>
    /\ InitDelivery
    /\ procs = [p \in Handlers |-> IdleHandler]

NextRace == \E p \in Handlers : StartRecord(p) \/ RecordStep(p)

SpecRace == InitRace /\ [][NextRace]_vars

\* deliveries handled one after the other, one of which is followed request
\* by request and may stop half-way
InitStop == InitSheets /\ InitDelivery /\ procs = [p \in Handlers |-> IdleHandler]

\* one well-formed text of every command that writes to a sheet, and one of
\* a command that only reads
LaterMessages ==
    {"e 5 food cash", "transfer 5 cash post", "setbalance cash 20", "setbudget food 50",
     "delete last", "reset daily", "refresh", "balance"}

StartRecordAlone(p) == (\A q \in Handlers : At(q, "idle")) /\ StartRecord(p)
DeliverAlone ==
    /\ NoneInFlight
    /\ n < MaxMsgs
    /\ \E message \in LaterMessages : Deliver(message)

NextStop ==
    \/ \E p \in Handlers : StartRecordAlone(p) \/ RecordStep(p) \/ StopHandler(p)
    \/ DeliverAlone

SpecStop == InitStop /\ [][NextStop]_vars

----------------------------------------------------------------------------
(* Properties of the webhook, checked under Spec *)

Words(t) == Split(Strip(t))
FirstWord(t) == Lower(Words(t)[1])
RecordWords == {"i", "income", "e", "expense"}
Periods == {"daily", "weekly", "monthly"}
IsInt(w) == ParseInt(w).ok
\* a step that is one webhook delivery handled by handle_message
Handled == n' = n + 1 /\ ran'

\* the command grammar of the interface section and the help text
WellFormed(t) ==
    LET w == Words(t)
        k == Len(w)
        f == FirstWord(t)
    IN CASE f \in RecordWords -> k >= 4 /\ IsInt(w[2])
         [] f = "transfer"    -> k >= 4 /\ IsInt(w[2])
         [] f = "balance"     -> k = 1
         [] f = "setbalance"  -> k = 3 /\ IsInt(w[3])
         [] f = "report"      -> k \in {1, 2}
         [] f = "setbudget"   -> k = 3 /\ IsInt(w[3])
         [] f = "budget"      -> k = 1
         [] f = "delete"      -> k = 2 /\ Lower(w[2]) = "last"
         [] f = "reset"       -> k = 2 /\ Lower(w[2]) \in Periods
         [] f = "refresh"     -> k = 1
         [] f = "help"        -> k = 1
         [] f = "search"      -> k \in {2, 3}
         [] OTHER             -> FALSE

\* C1 as stated: every non-empty text that is not a well-formed command is
\* answered with the help text and changes no sheet.
C1_HelpOnMalformed ==
    [][(Handled /\ Words(cmd') # <<>> /\ ~WellFormed(cmd'))
          => (reply' = Reply("help", <<>>) /\ UNCHANGED sheets)]_vars

\* how the handler answers a text it rejects on its form ("accepted": it does not)
Rejection(t) ==
    LET w == Words(t)
        k == Len(w)
        f == FirstWord(t)
    IN IF f \in RecordWords
       THEN (IF k < 2 \/ ~IsInt(w[2]) THEN "format" ELSE "accepted")
       ELSE IF f = "transfer" /\ k >= 4
       THEN (IF ~IsInt(w[2]) THEN "invalid_amount" ELSE "accepted")
       ELSE IF f = "setbalance" /\ k = 3
       THEN (IF ~IsInt(w[3]) THEN "invalid_amount" ELSE "accepted")
       ELSE IF StartsWith(f, "report") THEN "accepted"
       ELSE IF StartsWith(f, "setbudget") /\ k = 3
       THEN (IF ~IsInt(w[3]) THEN "invalid_amount" ELSE "accepted")
       ELSE IF f = "reset" /\ k >= 2
       THEN (IF Lower(w[2]) \notin Periods THEN "unknown_period" ELSE "accepted")
       ELSE IF Lower(Strip(t)) \in {"balance", "budget", "delete last", "refresh"} THEN "accepted"
       ELSE IF f = "search" /\ k >= 2 THEN "accepted"
       ELSE "help"

\* C1 (amended): a text rejected on its form changes no sheet and is answered
\* with the usage line (record command without an integer amount), the
\* invalid-amount message (transfer, setbalance, setbudget with a non-integer
\* amount), the unknown-period message (reset), or else the help text.
C1_RejectedChangesNothing ==
    [][(Handled /\ Words(cmd') # <<>> /\ Rejection(cmd') # "accepted")
          => (reply' = Reply(Rejection(cmd'), <<>>) /\ http' = "OK" /\ UNCHANGED sheets)]_vars

\* a malformed record command was answered with the usage line after a
\* transaction had been recorded
C1_Witness ==
    /\ ran /\ Words(cmd) # <<>> /\ ~WellFormed(cmd)
    /\ reply.kind = "format" /\ Len(transactions) >= 2

IsRecordText(t) == Words(t) # <<>> /\ FirstWord(t) \in RecordWords
IsRemovalText(t) ==
    Words(t) # <<>> /\ (Lower(Strip(t)) = "delete last" \/ FirstWord(t) = "reset")

RECURSIVE IsSubsequence(_, _)
\* a is b with some rows removed
IsSubsequence(a, b) ==
    IF a = <<>> THEN TRUE
    ELSE IF b = <<>> THEN FALSE
    ELSE IF Head(a) = Head(b) THEN IsSubsequence(Tail(a), Tail(b))
    ELSE IsSubsequence(a, Tail(b))

AppendsOneRow ==
    /\ Len(transactions') = Len(transactions) + 1
    /\ SubSeq(transactions', 1, Len(transactions)) = transactions

\* C2: the Transactions sheet changes only by a record command appending one
\* row at the end or by 'delete last' / 'reset' removing rows; an accepted
\* record command appends exactly one row; no step edits an existing row.
C2_TransactionsAppendOrRemove ==
    [][/\ \/ transactions' = transactions
          \/ (Handled /\ IsRecordText(cmd') /\ AppendsOneRow)
          \/ (Handled /\ IsRemovalText(cmd') /\ Len(transactions') < Len(transactions)
                /\ IsSubsequence(transactions', transactions))
       /\ (Handled /\ reply'.kind = "saved") => AppendsOneRow]_vars

\* 'delete last' removed the last of several recorded rows
C2_Witness == ran /\ reply.kind = "deleted" /\ Len(transactions) >= 2

\* C5 as stated: an invalid signature gives HTTP 400 with no handler run, no
\* sheet change and no reply; a valid signature gives 'OK'.
C5_SignatureGate ==
    [][(n' = n + 1)
          => IF ran' THEN http' = "OK"
             ELSE (http' = "400" /\ reply' = NoReply /\ UNCHANGED sheets)]_vars

\* C6 as stated: after an accepted 'transfer n A B' the 'balance' command
\* reports A lower by n and B higher by n than it did just before.
C6_TransferSeenByBalance ==
    [][(Handled /\ reply'.kind = "transferred")
          => LET w == Words(cmd')
                 amount == ParseInt(w[2]).val
                 from_place == Capitalize(w[3])
                 to_place == Capitalize(w[4])
                 before == HandleBalance(Sheets).reply.data
                 after == HandleBalance(Sheets').reply.data
             IN /\ DictGet(after, from_place, 0) = DictGet(before, from_place, 0) - amount
                /\ DictGet(after, to_place, 0) = DictGet(before, to_place, 0) + amount]_vars

\* C7 as stated: a 'refresh' that directly follows a 'refresh' leaves the
\* Balances and Categories sheets as the first one left them.
C7_RefreshIdempotent ==
    [][(Handled /\ reply'.kind = "refreshed" /\ ran /\ reply.kind = "refreshed")
          => (balances' = balances /\ categories' = categories)]_vars

CategoryListed(cat, name) == \E i \in 1..Len(cat) : Lower(cat[i][1]) = Lower(name)
CategoryBudget(cat, name, budget) ==
    \E i \in 1..Len(cat) : Lower(cat[i][1]) = Lower(name) /\ cat[i][3] = budget

\* C8: 'refresh' keeps the budget of every category of the Categories sheet,
\* drops no category row, and adds a category found only in Transactions
\* with budget 0.
C8_RefreshKeepsBudgets ==
    [][(Handled /\ reply'.kind = "refreshed")
          => /\ \A i \in 1..Len(categories) :
                   CategoryBudget(categories', categories[i][1], categories[i][3])
             /\ Len(categories') >= Len(categories)
             /\ \A k \in 1..Len(transactions) :
                   ~CategoryListed(categories, transactions[k].category)
                      => CategoryBudget(categories', transactions[k].category, 0)]_vars

\* a refresh kept a non-zero budget and added a category known only from
\* Transactions with budget 0
C8_Witness ==
    /\ ran /\ reply.kind = "refreshed"
    /\ \E i \in 1..Len(categories) : categories[i][3] # 0 /\ categories[i][2] # 0
    /\ CategoryBudget(categories, "rent", 0)
    /\ ~CategoryBudget(categories, "rent", 50)

\* whether a row dated `date` lies in the current day, week (from Monday
\* 00:00) or month (from day 1 00:00) of `today`
InPeriod(date, today, period) ==
    CASE period = "daily"   -> date.ord = today.ord
      [] period = "weekly"  -> date.ord >= today.ord - Weekday(today.ord)
      [] period = "monthly" -> date.ord >= today.ord - (DayOfMonth(today.ord) - 1)

RECURSIVE RowsOutside(_, _, _)
RowsOutside(rows, today, period) ==
    IF rows = <<>> THEN <<>>
    ELSE IF InPeriod(Head(rows).date, today, period)
         THEN RowsOutside(Tail(rows), today, period)
         ELSE <<Head(rows)>> \o RowsOutside(Tail(rows), today, period)

\* C9 as stated: 'reset daily|weekly|monthly' deletes exactly the rows of the
\* current period, keeps the others in order and replies with the count.
C9_ResetDeletesPeriod ==
    [][(Handled /\ Len(Words(cmd')) = 2 /\ FirstWord(cmd') = "reset"
          /\ Lower(Words(cmd')[2]) \in Periods)
          => LET kept == RowsOutside(transactions, NowAt(clock), Lower(Words(cmd')[2]))
                 count == Len(transactions) - Len(kept)
             IN /\ transactions' = kept
                /\ count > 0 => reply' = Reply("reset", <<count>>)]_vars

\* C10 as stated: in every state, an accepted record command followed at once
\* by 'delete last' restores the Transactions sheet and every stored balance.
C10_DeleteLastUndoesRecord ==
    \A m \in {t \in Messages : IsRecordText(t)} :
        LET r1 == HandleMessage(m, Sheets, NowAt(clock))
            r2 == HandleMessage("delete last", AfterHandling(r1), NowAt(clock))
            stored == BalancesDict(BalancesValues(r2.bal))
        IN r1.reply.kind = "saved"
              => /\ r2.tx = transactions
                 /\ \A i \in 1..Len(balances) :
                       /\ DictHas(stored, Capitalize(balances[i][1]))
                       /\ DictGet(stored, Capitalize(balances[i][1]), 0) = balances[i][2]

----------------------------------------------------------------------------
(* Properties of two concurrent record handlers, checked under SpecRace *)

RaceDone == \A p \in Handlers : procs[p].pc = "done"
SamePlace == Capitalize(procs[1].row.place) = Capitalize(procs[2].row.place)

\* what a row adds to the balance of its place
Delta(row) == IF IsIncome(row.type) THEN row.amount ELSE 0 - row.amount

StoredBalance(place) == DictGet(balances, Capitalize(place), 0)

\* the Balances sheet before either handler wrote: a handler that started
\* on an empty Transactions sheet started before any write
StartBalances ==
    IF procs[1].pre.tx = <<>> THEN procs[1].pre.bal ELSE procs[2].pre.bal

StartBalance(place) == DictGet(StartBalances, Capitalize(place), 0)

BothRowsRecorded ==
    /\ Len(transactions) = 2
    /\ {transactions[1], transactions[2]} = {procs[1].row, procs[2].row}
    /\ (procs[1].row = procs[2].row => transactions[1] = transactions[2])

\* C3: when two record commands for the same place are handled concurrently
\* and both finish, both rows are in Transactions and both senders are told
\* 'saved', and the stored balance of the place is the starting balance plus
\* both amounts, or plus only one of them, or only one amount on its own
\* (the handler read the sheet while the other had it cleared).
C3_RaceOutcomes ==
    (RaceDone /\ SamePlace)
       => /\ BothRowsRecorded
          /\ \A p \in Handlers : procs[p].reply.kind = "saved"
          /\ StoredBalance(procs[1].row.place) \in
                {StartBalance(procs[1].row.place) + Delta(procs[1].row) + Delta(procs[2].row),
                 StartBalance(procs[1].row.place) + Delta(procs[1].row),
                 StartBalance(procs[1].row.place) + Delta(procs[2].row),
                 Delta(procs[1].row),
                 Delta(procs[2].row)}

\* both handlers finished, both rows are recorded, and Balances and
\* Categories reflect only the second handler's row
C3_LostUpdate ==
    /\ RaceDone /\ SamePlace /\ BothRowsRecorded
    /\ procs[1].row.category = procs[2].row.category
    /\ StartBalance(procs[1].row.place) # 0
    /\ StoredBalance(procs[1].row.place)
          = StartBalance(procs[1].row.place) + Delta(procs[2].row)
    /\ categories = << <<procs[2].row.category, procs[2].row.amount, 0>> >>

----------------------------------------------------------------------------
(* Properties of a handler that stops half-way, checked under SpecStop *)

Stops(p) == InFlight(p) /\ procs'[p].pc = "crashed"

\* the appended row is there and Balances and Categories are as before
RowWithoutUpdate(p) ==
    /\ transactions = Append(procs[p].pre.tx, procs[p].row)
    /\ balances = procs[p].pre.bal
    /\ categories = procs[p].pre.cat

\* what a handler stopped before position procs[p].pc leaves in the sheets
LeftBehind(p) ==
    /\ procs[p].pc \in {"read_balances", "clear_balances"} => RowWithoutUpdate(p)
    /\ procs[p].pc \in {"header_balances", "write_balances"}
          => /\ transactions = Append(procs[p].pre.tx, procs[p].row)
             /\ balances = <<>>
             /\ categories = procs[p].pre.cat
    /\ procs[p].pc \in {"header_categories", "write_categories"}
          => /\ transactions = Append(procs[p].pre.tx, procs[p].row)
             /\ categories = <<>>
    /\ procs[p].pc \notin {"append_row", "reply"} => Sheets # procs[p].expected

StoppedInconsistent ==
    \A p \in Handlers : Stops(p) => (UNCHANGED sheets /\ LeftBehind(p))

\* C4, the part that holds: a record handler that stops after append_row and
\* before its last write leaves the row recorded with Balances and Categories
\* unchanged, or a Balances or Categories sheet with no data rows; the sheets
\* differ from what the finished handler leaves, and nothing is put back when
\* it stops.
C4_StoppedLeavesInconsistent == [][StoppedInconsistent]_vars

\* C4 as stated: in addition, after a handler stopped between append_row and
\* its last write, no later command brings the sheets to what the finished
\* handler would have left.
C4_NeverRepaired ==
    [][/\ StoppedInconsistent
       /\ \A p \in Handlers :
             (At(p, "crashed") /\ procs[p].at \notin {"append_row", "reply"})
                => Sheets' # procs[p].expected]_vars

\* a handler stopped between cat_sheet.clear() and the write of its rows
C4_Witness ==
    \E p \in Handlers :
       /\ At(p, "crashed")
       /\ transactions = Append(procs[p].pre.tx, procs[p].row)
       /\ balances # <<>> /\ balances # procs[p].pre.bal
       /\ categories = <<>> /\ procs[p].pre.cat # <<>>

----------------------------------------------------------------------------
(* Properties of category totals and of transfers, checked under Spec *)

RECURSIVE SignedSum(_, _)
\* income amounts minus expense amounts of the rows of one category
SignedSum(tx, name) ==
    IF tx = <<>> THEN 0
    ELSE (IF Lower(Head(tx).category) = Lower(name) THEN Delta(Head(tx)) ELSE 0)
            + SignedSum(Tail(tx), name)

TotalsAreSignedSums(cat, tx) ==
    /\ \A i \in 1..Len(cat) : cat[i][2] = SignedSum(tx, cat[i][1])
    /\ \A k \in 1..Len(tx) : CategoryListed(cat, tx[k].category)

\* C11 as stated: a record command handled when every Total is the signed sum
\* of its category's rows (as on a sheet with no rows at all) leaves every
\* Total the signed sum again, the first row of a category included, and a
\* 'refresh' handled next leaves the Categories sheet as it is.
C11_TotalsAreSignedSums ==
    [][(Handled /\ reply'.kind = "saved" /\ TotalsAreSignedSums(categories, transactions))
          => /\ TotalsAreSignedSums(categories', transactions')
             /\ HandleMessage("refresh", Sheets', NowAt(clock)).cat = categories']_vars

IsTransferText(t) == Len(Words(t)) >= 4 /\ FirstWord(t) = "transfer"

\* the from-place of a transfer text and its stored balance
FromPlace(t) == Capitalize(Words(t)[3])
HasBalanceRow(bal, place) == \E i \in 1..Len(bal) : Capitalize(bal[i][1]) = place

RECURSIVE SumOfBalances(_)
SumOfBalances(bal) == IF bal = <<>> THEN 0 ELSE Head(bal)[2] + SumOfBalances(Tail(bal))

\* the three reasons the claim gives for rejecting a transfer
TransferRejected(t, bal) ==
    \/ ~IsInt(Words(t)[2])
    \/ ~HasBalanceRow(bal, FromPlace(t))
    \/ DictGet(bal, FromPlace(t), 0) < ParseInt(Words(t)[2]).val

TransferErrors == {"invalid_amount", "no_such_place", "not_enough_funds"}

\* C12: a transfer whose amount is not an integer, whose from-place has no
\* Balances row, or whose from-place holds less than the amount is answered
\* with an error message and changes no sheet; any other transfer appends
\* exactly one row to Transfers and keeps the sum of the stored balances.
C12_TransferAllOrNothing ==
    [][(Handled /\ IsTransferText(cmd'))
          => IF TransferRejected(cmd', balances)
             THEN reply'.kind \in TransferErrors /\ http' = "OK" /\ UNCHANGED sheets
             ELSE /\ reply'.kind = "transferred"
                  /\ Len(transfers') = Len(transfers) + 1
                  /\ SubSeq(transfers', 1, Len(transfers)) = transfers
                  /\ SumOfBalances(balances') = SumOfBalances(balances)]_vars

\* a transfer was refused for lack of funds after an earlier one had moved
\* money out of the from-place
C12_Witness ==
    /\ ran /\ IsTransferText(cmd) /\ reply.kind = "not_enough_funds"
    /\ Len(transfers) = 1
    /\ DictGet(balances, "Post", 0) = 5
    /\ SumOfBalances(balances) # 0

============================================================================
